---- MODULE Spec2Model ----
(***************************************************************************)
(* Package logger of Billes/go-logger-client: a client that posts log      *)
(* entries to a remote log book and falls back to lines on standard        *)
(* output.                                                                 *)
(*                                                                         *)
(* The repository carries two revisions of the package.  src/logger.go     *)
(* has no start-up warning in Init and no warning line in postLog;         *)
(* src/unnamed/part_000 has both.  The variable `revision` fixes, for a    *)
(* whole behaviour, which of the two is running; every operator that       *)
(* differs between them takes the revision as a parameter.                 *)
(*                                                                         *)
(* Goroutines are the elements of Procs.  The package has no lock: Init    *)
(* is modelled statement by statement (the nil check, the store, the       *)
(* return) so that two Init calls interleave as the Go scheduler lets      *)
(* them; an emitter call is one action that reads logr once.               *)
(***************************************************************************)
EXTENDS Integers, Sequences, FiniteSets, TLC

VARIABLES
    revision,   \* which revision of the package is running
    logr,       \* var logr *logger : Nil or the Options it points to
    exit,       \* Running, or the status handed to os.Exit
    stderr,     \* what coreLog.Fatal printed
    call,       \* per goroutine: the Init call it is inside, if any
    last,       \* the call that returned (or exited) last: arguments and effects
    initRets,   \* what each returned Init call gave its caller, in order
    ncalls      \* number of calls made so far

vars == <<revision, logr, exit, stderr, call, last, initRets, ncalls>>

----------------------------------------------------------------------------
(* Bounds and input sets *)

MaxCalls == 2

\* nesting of log inside log that the model follows before it cuts a call off
MaxDepth == 3

Procs == {1, 2}

RevLoggerGo == "src/logger.go"
RevPart000  == "src/unnamed/part_000"
Revisions   == {RevLoggerGo, RevPart000}

Hosts    == {"", "http://logbook"}
Systems  == {"svcA", "svcB"}
Tokens   == {"tok"}
Timeouts == {-1, 0, 1}

\* Options as a caller may pass them
OptionsIn == [Host : Hosts, System : Systems, Token : Tokens,
              Local : BOOLEAN, Timeout : Timeouts]

\* caller-supplied tags, message and data
TagsIn == {<<>>, <<"a", "b">>}
MsgsIn == {"m"}
DataNil  == "nil"
DataChan == "chan"      \* a value encoding/json cannot encode
\* (mutant) the Error call inside log is handed data that cannot be encoded
DataEmptyString_unencodable == "chan"
DataEmptyString == ""
DatasIn == {DataNil, DataChan}

\* outcome of fasthttp Client.DoTimeout
NoErr == "nil"
NetOutcomes == {NoErr, "timeout", "connection refused"}

----------------------------------------------------------------------------
(* Program constants *)

criticalSeverity == "CRITICAL"
debugSeverity    == "DEBUG"
errorSeverity    == "ERROR"
infoSeverity     == "INFO"
warningSeverity  == "WARNING"

timeout == 10

logTags == <<"logging">>

\* var logr *logger: the nil pointer, or a pointer to a logger struct
Nil          == <<>>
AddressOf(x) == <<x>>
Deref(ptr)   == ptr[1]

\* the process: still running, or ended by os.Exit with a status
Running        == <<>>
Exited(status) == <<status>>

MsgAlreadyInstantiated == "Trying to instantiate an already instantiated logger"
MsgHostNotSet          == "Host is not set"
MsgNotEncodable        == "Could not post to log due to \"data\" wasn't encodable - See local log"
MsgNotInstantiated     == "You need to instantiate the logger first"
MsgUnsupportedType     == "json: unsupported type"
MsgSendFailed(err)     == "Failed while sending log entry request: " \o err

----------------------------------------------------------------------------
(* Pure parts of the package *)

\* (mutant) only a negative timeout becomes the default
defaultTimeout_negativeOnly(o) ==
    IF o.Timeout < 0 THEN [o EXCEPT !.Timeout = timeout] ELSE o

\* Init, first statement: a timeout below 1 becomes the default
defaultTimeout(o) ==
    IF o.Timeout < 1 THEN [o EXCEPT !.Timeout = timeout] ELSE o

\* (mutant) the system name appended after the caller's tags
newEntry_systemLast(lg, sev, tags, message, data) ==
    [Severity |-> sev,
     Tags     |-> tags \o <<lg.options.System>>,
     Message  |-> message,
     Data     |-> data]

\* newEntry, the struct literal: the system name, then the caller's tags
newEntry(lg, sev, tags, message, data) ==
    [Severity |-> sev,
     Tags     |-> <<lg.options.System>> \o tags,
     Message  |-> message,
     Data     |-> data]

\* json.Marshal of a logEntry: the fields under their json names, or an error
\* when the data cannot be encoded
NoBody == [severity |-> "", tags |-> <<>>, message |-> "", data |-> DataNil]

\* (mutant) the encoder's error is dropped and the entry goes on to be posted
Marshal_errorDropped(e) ==
    [err |-> NoErr,
     body |-> [severity |-> e.Severity, tags |-> e.Tags,
               message |-> e.Message, data |-> e.Data]]

Marshal(e) ==
    IF e.Data = DataChan
    THEN [err |-> MsgUnsupportedType, body |-> NoBody]
    ELSE [err |-> NoErr,
          body |-> [severity |-> e.Severity, tags |-> e.Tags,
                    message |-> e.Message, data |-> e.Data]]

\* writeLocalLog: the line printed (after the time stamp): severity, tags, message
writeLocalLog(e) ==
    [Severity |-> e.Severity, Tags |-> e.Tags, Message |-> e.Message]

\* the request postLog builds
Request(lg, body) ==
    [uri |-> lg.options.Host, method |-> "POST", contentType |-> "application/json",
     token |-> lg.options.Token, body |-> body, timeoutSeconds |-> lg.options.Timeout]

\* (mutant) postLog without its test of the host
hostNotSet_never(lg) == FALSE

\* postLog, first statement: no host, no request
hostNotSet(lg) == lg.options.Host = ""

\* (mutant) a failed request is sent a second time
postLog_retry(rev, lg, body, net) ==
    IF hostNotSet(lg)
    THEN [err |-> MsgHostNotSet, posts |-> <<>>, lines |-> <<>>, built |-> <<>>]
    ELSE LET entry == newEntry(lg, warningSeverity, logTags, MsgSendFailed(net), DataNil)
             warns == rev = RevPart000 /\ net # NoErr /\ lg.options.Host # ""
         IN  [err   |-> net,
              posts |-> IF net # NoErr THEN <<Request(lg, body), Request(lg, body)>>
                        ELSE <<Request(lg, body)>>,
              lines |-> IF warns THEN <<writeLocalLog(entry)>> ELSE <<>>,
              built |-> IF warns THEN <<entry>> ELSE <<>>]

\* postLog with logr pointing to lg, DoTimeout ending with outcome net.
\* Gives the error returned, the requests sent, the lines written and the
\* entries built.
postLog(rev, lg, body, net) ==
    IF hostNotSet(lg)
    THEN [err |-> MsgHostNotSet, posts |-> <<>>, lines |-> <<>>, built |-> <<>>]
    ELSE LET entry == newEntry(lg, warningSeverity, logTags, MsgSendFailed(net), DataNil)
             warns == rev = RevPart000 /\ net # NoErr /\ lg.options.Host # ""
         IN  [err   |-> net,
              posts |-> <<Request(lg, body)>>,
              lines |-> IF warns THEN <<writeLocalLog(entry)>> ELSE <<>>,
              built |-> IF warns THEN <<entry>> ELSE <<>>]

\* (mutant) the local copy is written whatever the post did
alsoLocal_always(err, lg) == TRUE

\* (mutant) the local copy only when the post failed
alsoLocal_onlyOnError(err, lg) == err # NoErr

\* log: the test that decides on the local copy after postLog
alsoLocal(err, lg) == err # NoErr \/ lg.options.Local

\* log with logr pointing to lg, entered at nesting depth.  The call of Error
\* on an encoding failure is log(newEntry(errorSeverity, ...)) and recurses;
\* logs counts the entries into log.  Beyond MaxDepth the call is cut off.
RECURSIVE logFrom(_, _, _, _, _)
logFrom(rev, lg, e, net, depth) ==
    LET m == Marshal(e) IN
    IF depth > MaxDepth
    THEN [err |-> NoErr, posts |-> <<>>, lines |-> <<>>, built |-> <<>>, logs |-> 0]
    ELSE IF m.err # NoErr
    THEN LET e2 == newEntry(lg, errorSeverity, logTags, MsgNotEncodable, DataEmptyString)
             r2 == logFrom(rev, lg, e2, net, depth + 1)
         IN  [err   |-> NoErr,
              posts |-> r2.posts,
              lines |-> <<writeLocalLog(e)>> \o r2.lines,
              built |-> <<e2>> \o r2.built,
              logs  |-> 1 + r2.logs]
    ELSE LET r == postLog(rev, lg, m.body, net)
         IN  [err   |-> r.err,
              posts |-> r.posts,
              lines |-> r.lines \o
                        (IF alsoLocal(r.err, lg) THEN <<writeLocalLog(e)>> ELSE <<>>),
              built |-> r.built,
              logs  |-> 1]

\* log as an emitter calls it
log(rev, lg, e, net) == logFrom(rev, lg, e, net, 1)

\* (mutant) the message is printed but the process goes on
NotInstantiated_noExit ==
    [err |-> NoErr, posts |-> <<>>, lines |-> <<>>, built |-> <<>>, logs |-> 0,
     stderr |-> <<MsgNotInstantiated>>, exit |-> Running]

\* newEntry's guard: coreLog.Fatal prints and exits with status 1 when logr is nil
NotInstantiated ==
    [err |-> NoErr, posts |-> <<>>, lines |-> <<>>, built |-> <<>>, logs |-> 0,
     stderr |-> <<MsgNotInstantiated>>, exit |-> Exited(1)]

\* an emitter's body, log(newEntry(sev, tags, message, data)), with logr = l
emit(rev, l, sev, tags, message, data, net) ==
    IF l = Nil
    THEN NotInstantiated
    ELSE LET lg == Deref(l)
             e == newEntry(lg, sev, tags, message, data)
             r == log(rev, lg, e, net)
         IN  [err |-> r.err, posts |-> r.posts, lines |-> r.lines,
              built |-> <<e>> \o r.built, logs |-> r.logs,
              stderr |-> <<>>, exit |-> Running]

\* (mutant) Fatal never adds its own local copy
forceLocal_never(err, lg) == FALSE

\* Fatal: the test that decides on its own local copy
forceLocal(err, lg) == err = NoErr /\ ~lg.options.Local

\* Fatal's body with logr = l
fatal(rev, l, tags, message, data, net) ==
    IF l = Nil
    THEN NotInstantiated
    ELSE LET lg == Deref(l)
             e == newEntry(lg, criticalSeverity, tags, message, data)
             r == log(rev, lg, e, net)
         IN  [err |-> r.err, posts |-> r.posts,
              lines |-> r.lines \o
                        (IF forceLocal(r.err, lg) THEN <<writeLocalLog(e)>> ELSE <<>>),
              built |-> <<e>> \o r.built, logs |-> r.logs,
              stderr |-> <<>>, exit |-> Exited(1)]

----------------------------------------------------------------------------
(* State *)

NoOptions == [Host |-> "", System |-> "", Token |-> "", Local |-> FALSE, Timeout |-> 0]
NoArgs    == [sev |-> "", tags |-> <<>>, message |-> "", data |-> DataNil]
NoEffect  == [err |-> NoErr, posts |-> <<>>, lines |-> <<>>, built |-> <<>>, logs |-> 0]
Idle      == [pc |-> "idle", given |-> NoOptions, o |-> NoOptions]
NoCall    == [op |-> "none", given |-> NoOptions, o |-> NoOptions, args |-> NoArgs,
              seen |-> Nil, eff |-> NoEffect, ret |-> "none"]

Effect(r) == [err |-> r.err, posts |-> r.posts, lines |-> r.lines, built |-> r.built,
              logs |-> r.logs]

Init ==
    /\ revision \in Revisions
    /\ logr = Nil
    /\ exit = Running
    /\ stderr = <<>>
    /\ call = [p \in Procs |-> Idle]
    /\ last = NoCall
    /\ initRets = <<>>
    /\ ncalls = 0

\* goroutines between calls are alike: a new call runs on the first free one
FirstFree(p) == \A q \in Procs : call[q].pc = "idle" => p <= q

CanCall(p) ==
    /\ exit = Running
    /\ call[p].pc = "idle"
    /\ FirstFree(p)
    /\ ncalls < MaxCalls

----------------------------------------------------------------------------
(* func Init(o Options) error *)

\* (mutant) Init without its test of logr
alreadyInstantiated_never(l) == FALSE

\* Init's test of logr
alreadyInstantiated(l) == l # Nil

\* the call, the timeout default and the test of logr
InitCall(p) ==
    \E o \in OptionsIn :
        /\ CanCall(p)
        /\ call' = [call EXCEPT ![p] =
                        [pc    |-> IF alreadyInstantiated(logr) THEN "reject" ELSE "store",
                         given |-> o,
                         o     |-> defaultTimeout(o)]]
        /\ ncalls' = ncalls + 1
        /\ UNCHANGED <<revision, logr, exit, stderr, last, initRets>>

\* Init returns ret to its caller, having had effect r
InitReturns(p, ret, r) ==
    /\ call' = [call EXCEPT ![p] = Idle]
    /\ last' = [op |-> "Init", given |-> call[p].given, o |-> call[p].o,
                args |-> NoArgs, seen |-> logr, eff |-> Effect(r), ret |-> ret]
    /\ initRets' = Append(initRets, [ret |-> ret, active |-> logr])
    /\ stderr' = stderr \o r.stderr
    /\ exit' = r.exit
    /\ UNCHANGED <<revision, logr, ncalls>>

\* (mutant) the error record is emitted under the options just passed in
alreadyError_newOptions(rev, l, o, net) ==
    emit(rev, AddressOf([options |-> o]), errorSeverity, logTags,
         MsgAlreadyInstantiated, DataNil, net)

\* Init's Error(logTags, err.Error(), nil), its own options being o
alreadyError(rev, l, o, net) ==
    emit(rev, l, errorSeverity, logTags, MsgAlreadyInstantiated, DataNil, net)

\* logr was not nil: Error(logTags, err.Error(), nil); return err
InitReject(p) ==
    /\ exit = Running
    /\ call[p].pc = "reject"
    /\ \E net \in NetOutcomes :
        InitReturns(p, MsgAlreadyInstantiated,
                    alreadyError(revision, logr, call[p].o, net))

\* logr was nil: logr = &logger{o}
InitStore(p) ==
    /\ exit = Running
    /\ call[p].pc = "store"
    /\ logr' = AddressOf([options |-> call[p].o])
    /\ call' = [call EXCEPT ![p].pc = "return"]
    /\ UNCHANGED <<revision, exit, stderr, last, initRets, ncalls>>

\* what Init does between the store and its return
hostWarning(rev, o, l, net) ==
    IF rev = RevPart000 /\ o.Host = ""
    THEN emit(rev, l, warningSeverity, logTags, MsgHostNotSet, DataNil, net)
    ELSE [err |-> NoErr, posts |-> <<>>, lines |-> <<>>, built |-> <<>>, logs |-> 0,
          stderr |-> <<>>, exit |-> Running]

\* the rest of Init after the store; return nil
InitReturn(p) ==
    /\ exit = Running
    /\ call[p].pc = "return"
    /\ \E net \in NetOutcomes :
        InitReturns(p, NoErr, hostWarning(revision, call[p].o, logr, net))

----------------------------------------------------------------------------
(* The emitters *)

Called(name, sev, tags, message, data, r) ==
    /\ last' = [op |-> name, given |-> NoOptions, o |-> NoOptions,
                args |-> [sev |-> sev, tags |-> tags, message |-> message, data |-> data],
                seen |-> logr, eff |-> Effect(r), ret |-> "void"]
    /\ stderr' = stderr \o r.stderr
    /\ exit' = r.exit
    /\ ncalls' = ncalls + 1
    /\ UNCHANGED <<revision, logr, call, initRets>>

Emitter(p, name, sev) ==
    /\ CanCall(p)
    /\ \E tags \in TagsIn, message \in MsgsIn, data \in DatasIn, net \in NetOutcomes :
        Called(name, sev, tags, message, data,
               emit(revision, logr, sev, tags, message, data, net))

Critical(p) == Emitter(p, "Critical", criticalSeverity)
Debug(p)    == Emitter(p, "Debug", debugSeverity)
Error(p)    == Emitter(p, "Error", errorSeverity)
Info(p)     == Emitter(p, "Info", infoSeverity)
Warning(p)  == Emitter(p, "Warning", warningSeverity)

Fatal(p) ==
    /\ CanCall(p)
    /\ \E tags \in TagsIn, message \in MsgsIn, data \in DatasIn, net \in NetOutcomes :
        Called("Fatal", criticalSeverity, tags, message, data,
               fatal(revision, logr, tags, message, data, net))

----------------------------------------------------------------------------
(* Specifications *)

Step(p) ==
    \/ InitCall(p)
    \/ InitReject(p)
    \/ InitStore(p)
    \/ InitReturn(p)
    \/ Critical(p)
    \/ Debug(p)
    \/ Error(p)
    \/ Info(p)
    \/ Warning(p)
    \/ Fatal(p)

\* goroutines run as the scheduler lets them
Next == \E p \in Procs : Step(p)

Spec == Init /\ [][Next]_vars

\* one call at a time: a goroutine runs only while every other one is between calls
Alone(p) == \A q \in Procs \ {p} : call[q].pc = "idle"

NextSeq ==
    \E p \in Procs :
        \/ Alone(p) /\ InitCall(p)
        \/ Alone(p) /\ InitReject(p)
        \/ Alone(p) /\ InitStore(p)
        \/ Alone(p) /\ InitReturn(p)
        \/ Alone(p) /\ Critical(p)
        \/ Alone(p) /\ Debug(p)
        \/ Alone(p) /\ Error(p)
        \/ Alone(p) /\ Info(p)
        \/ Alone(p) /\ Warning(p)
        \/ Alone(p) /\ Fatal(p)

SpecSeq == Init /\ [][NextSeq]_vars

TypeOK ==
    /\ revision \in Revisions
    /\ logr = Nil \/ (Len(logr) = 1 /\ \E o \in OptionsIn : logr[1].options = defaultTimeout(o))
    /\ exit \in {Running, Exited(1)}
    /\ ncalls \in 0..MaxCalls
    /\ \A p \in Procs : call[p].pc \in {"idle", "reject", "store", "return"}

----------------------------------------------------------------------------
(* Vocabulary of the properties *)

SeverityEmitters == {"Critical", "Debug", "Error", "Info", "Warning"}
Emitters         == SeverityEmitters \cup {"Fatal"}

\* the configuration the last call ran under
Active       == Deref(last.seen).options
Instantiated == last.seen # Nil

Count(x, s)  == Cardinality({i \in 1..Len(s) : s[i] = x})

\* the line that records the last emitter call's own record
OwnLine == [Severity |-> last.args.sev,
            Tags     |-> <<Active.System>> \o last.args.tags,
            Message  |-> last.args.message]

\* the last call posted a record that could be encoded
Posted    == last.eff.posts # <<>>
Encodable == last.args.data # DataChan

InitOk       == last.op = "Init" /\ last.ret = NoErr
InitRejected == last.op = "Init" /\ last.ret = MsgAlreadyInstantiated

----------------------------------------------------------------------------
(* C1: with calls made one after another, the first Init returns nil and    *)
(* installs exactly its options (timeout defaulted); every later Init       *)
(* returns the already-instantiated error and leaves the configuration the  *)
(* first one installed, whatever options it was given.                      *)
C1_InitTwice ==
    /\ \A i \in 1..Len(initRets) :
          IF i = 1
          THEN initRets[i].ret = NoErr
          ELSE /\ initRets[i].ret = MsgAlreadyInstantiated
               /\ initRets[i].active = initRets[1].active
    /\ (Len(initRets) = 1 /\ last.op = "Init") =>
          initRets[1].active = AddressOf([options |-> defaultTimeout(last.given)])

C1_Witness ==
    /\ Len(initRets) = 2
    /\ InitRejected
    /\ defaultTimeout(last.given).System # Deref(logr).options.System
    /\ defaultTimeout(last.given).Host # Deref(logr).options.Host

(* C2: once the Init calls made have all returned, exactly one of them has *)
(* returned nil, and the configuration each of them left is the one the     *)
(* first to return left: the loser of a race gets the error and overwrites  *)
(* nothing.                                                                 *)
C2_OneWinner ==
    (Len(initRets) >= 1 /\ \A p \in Procs : call[p].pc = "idle") =>
        /\ Cardinality({i \in 1..Len(initRets) : initRets[i].ret = NoErr}) = 1
        /\ \A i \in 1..Len(initRets) : initRets[i].active = initRets[1].active

(* C3: an emitter or Fatal called while logr is nil ends the process at     *)
(* once with status 1: no request is sent, no line is written, no entry is  *)
(* built.                                                                   *)
C3_HaltsBeforeInit ==
    (last.op \in Emitters /\ ~Instantiated) =>
        /\ exit = Exited(1)
        /\ stderr = <<MsgNotInstantiated>>
        /\ last.eff = NoEffect

C3_Witness ==
    /\ last.op \in SeverityEmitters
    /\ ~Instantiated
    /\ exit = Exited(1)
    /\ \E p \in Procs : call[p].pc = "store"

(* C4: under a configuration whose host is empty a call sends no request    *)
(* and every entry it builds is written as a local line, whether Local is   *)
(* set or not.                                                              *)
C4_EmptyHostLocalOnly ==
    (Instantiated /\ Active.Host = "") =>
        /\ last.eff.posts = <<>>
        /\ \A i \in 1..Len(last.eff.built) :
              Count([Severity |-> last.eff.built[i].Severity,
                     Tags     |-> last.eff.built[i].Tags,
                     Message  |-> last.eff.built[i].Message], last.eff.lines) >= 1

C4_Witness ==
    /\ last.op \in Emitters
    /\ Instantiated
    /\ Active.Host = ""
    /\ ~Active.Local
    /\ Count(OwnLine, last.eff.lines) = 1

(* C5: an Init that returns nil with an empty host has built exactly one    *)
(* WARNING entry, "Host is not set", tagged with the system and logging,    *)
(* and written it as a local line; with a host it has built none.           *)
C5_StartupWarning ==
    InitOk =>
        IF last.o.Host = ""
        THEN /\ last.eff.built = <<[Severity |-> "WARNING",
                                    Tags     |-> <<Active.System, "logging">>,
                                    Message  |-> "Host is not set",
                                    Data     |-> DataNil]>>
             /\ last.eff.lines = <<[Severity |-> "WARNING",
                                    Tags     |-> <<Active.System, "logging">>,
                                    Message  |-> "Host is not set"]>>
        ELSE last.eff.built = <<>>

\* the same, of the revision that has the warning
C5_StartupWarningPart000 == revision = RevPart000 => C5_StartupWarning

(* C6: with a host, Local false and an encodable record whose post fails,   *)
(* the record is written locally exactly once and a WARNING line telling    *)
(* of the failed request is written too.                                    *)
C6_FallbackOnceWithWarning ==
    (last.op \in Emitters /\ Instantiated /\ Encodable /\ Posted
        /\ last.eff.err # NoErr /\ ~Active.Local) =>
        /\ Count(OwnLine, last.eff.lines) = 1
        /\ \E i \in 1..Len(last.eff.lines) :
              /\ last.eff.lines[i].Severity = "WARNING"
              /\ last.eff.lines[i].Tags = <<Active.System, "logging">>
              /\ last.eff.lines[i].Message =
                    "Failed while sending log entry request: " \o last.eff.err

\* the same, of the revision that has the warning
C6_FallbackPart000 == revision = RevPart000 => C6_FallbackOnceWithWarning

\* in both revisions the record itself is written exactly once
C6_FallbackOnce ==
    (last.op \in Emitters /\ Instantiated /\ Encodable /\ Posted
        /\ last.eff.err # NoErr /\ ~Active.Local) =>
        Count(OwnLine, last.eff.lines) = 1

(* C7: with Local set, an encodable record whose post succeeds is posted    *)
(* once and written locally once.                                           *)
C7_LocalAlso ==
    (last.op \in Emitters /\ Instantiated /\ Encodable /\ Posted
        /\ last.eff.err = NoErr /\ Active.Local) =>
        /\ Len(last.eff.posts) = 1
        /\ last.eff.posts[1].uri = Active.Host
        /\ last.eff.posts[1].body.severity = last.args.sev
        /\ last.eff.posts[1].body.tags = <<Active.System>> \o last.args.tags
        /\ Count(OwnLine, last.eff.lines) = 1

C7_Witness ==
    /\ last.op \in SeverityEmitters
    /\ Instantiated /\ Encodable /\ Posted
    /\ last.eff.err = NoErr
    /\ Active.Local
    /\ last.eff.lines = <<OwnLine>>

(* C8: a Fatal called once logr is set ends the process with status 1 and   *)
(* has written at least one local line of its CRITICAL record, whatever the *)
(* encoding, the post and Local did.                                        *)
C8_FatalExitsWithLine ==
    (last.op = "Fatal" /\ Instantiated) =>
        /\ exit = Exited(1)
        /\ last.args.sev = "CRITICAL"
        /\ Count(OwnLine, last.eff.lines) >= 1

C8_Witness ==
    /\ last.op = "Fatal"
    /\ Instantiated /\ Encodable /\ Posted
    /\ last.eff.err = NoErr
    /\ ~Active.Local
    /\ exit = Exited(1)
    /\ last.eff.lines = <<OwnLine>>

(* C9: every entry a call builds carries the active system name first and   *)
(* then the tags it was given, unchanged and in order: the caller's tags    *)
(* for the record of the call, "logging" for the records the logger adds.   *)
C9_SystemThenTags ==
    Instantiated =>
        \A i \in 1..Len(last.eff.built) :
            last.eff.built[i].Tags =
                <<Active.System>> \o
                    (IF i = 1 /\ last.op \in Emitters THEN last.args.tags
                     ELSE <<"logging">>)

C9_Witness ==
    /\ last.op \in SeverityEmitters
    /\ Instantiated
    /\ last.args.tags = <<"a", "b">>
    /\ Len(last.eff.built) >= 2
    /\ last.eff.built[1].Tags = <<Active.System, "a", "b">>

(* C10: an Init turned away because logr is set has built exactly one ERROR *)
(* entry, under the configuration in force and not under the options it was *)
(* given: the entry's first tag is the active system name and a request, if *)
(* one is sent, goes to the active host with the active token.              *)
C10_RejectedUsesActive ==
    InitRejected =>
        /\ Instantiated
        /\ Len(last.eff.built) >= 1
        /\ last.eff.built[1] = [Severity |-> "ERROR",
                                Tags     |-> <<Active.System, "logging">>,
                                Message  |-> MsgAlreadyInstantiated,
                                Data     |-> DataNil]
        /\ Cardinality({i \in 1..Len(last.eff.built) :
                            last.eff.built[i].Severity = "ERROR"}) = 1
        /\ \A i \in 1..Len(last.eff.posts) :
              /\ last.eff.posts[i].uri = Active.Host
              /\ last.eff.posts[i].body.tags = <<Active.System, "logging">>
              /\ last.eff.posts[i].body.severity = "ERROR"
        /\ Len(last.eff.posts) = IF Active.Host = "" THEN 0 ELSE 1

C10_Witness ==
    /\ InitRejected
    /\ last.o.System # Active.System
    /\ last.o.Host # Active.Host
    /\ Active.Host # ""
    /\ Len(last.eff.posts) = 1

(* C11: the timeout of the configuration in force is never below 1: the     *)
(* store of Init writes 10 where the caller gave a timeout below 1 and the  *)
(* caller's value otherwise, the other fields as given.                     *)
C11_TimeoutAtLeastOne ==
    /\ [](logr # Nil => Deref(logr).options.Timeout >= 1)
    /\ [][\A p \in Procs :
            (call[p].pc = "store" /\ call'[p].pc = "return") =>
                logr' = <<[options |->
                            [call[p].given EXCEPT
                                !.Timeout = IF call[p].given.Timeout < 1
                                            THEN 10
                                            ELSE call[p].given.Timeout]]>>]_vars

C11_Witness ==
    /\ \E p \in Procs : call[p].pc = "return" /\ call[p].given.Timeout = -1
    /\ logr # Nil
    /\ Deref(logr).options.Timeout = 10

(* C12: when the record of an emitter call cannot be encoded, its local     *)
(* line is written first, then an ERROR entry tagged with the system and    *)
(* "logging" is built and goes through log like any record (posted when a   *)
(* host is set, written locally when no host is set or Local is set), and   *)
(* no request carries the record that could not be encoded.                 *)
C12_EncodingFailure ==
    (last.op \in Emitters /\ Instantiated /\ ~Encodable) =>
        /\ Len(last.eff.lines) >= 1
        /\ last.eff.lines[1] = OwnLine
        /\ Len(last.eff.built) >= 2
        /\ last.eff.built[2] =
              [Severity |-> "ERROR",
               Tags     |-> <<Active.System, "logging">>,
               Message  |-> "Could not post to log due to \"data\" wasn't encodable - See local log",
               Data     |-> ""]
        /\ Len(last.eff.posts) = IF Active.Host = "" THEN 0 ELSE 1
        /\ \A i \in 1..Len(last.eff.posts) :
              /\ last.eff.posts[i].body.severity = "ERROR"
              /\ last.eff.posts[i].body.tags = <<Active.System, "logging">>
              /\ last.eff.posts[i].body.data # DataChan
        /\ \A i \in 2..Len(last.eff.lines) :
              last.eff.lines[i].Severity = "ERROR" =>
                  last.eff.lines[i].Tags = <<Active.System, "logging">>
        /\ (Active.Host = "" \/ Active.Local) =>
              \E i \in 2..Len(last.eff.lines) :
                  last.eff.lines[i] =
                      [Severity |-> "ERROR",
                       Tags     |-> <<Active.System, "logging">>,
                       Message  |-> "Could not post to log due to \"data\" wasn't encodable - See local log"]

C12_Witness ==
    /\ last.op \in SeverityEmitters
    /\ Instantiated
    /\ ~Encodable
    /\ Len(last.eff.posts) = 1
    /\ last.eff.posts[1].body.severity = "ERROR"
    /\ last.eff.lines[1] = OwnLine

(* C13: an emitter call made once logr is set returns (or, for Fatal,       *)
(* exits) after entering log once, or twice when its data cannot be         *)
(* encoded and never more; the WARNING entry of a failed request is built   *)
(* last, written as a local line and neither posted nor passed to log.      *)
C13_DispatchAtMostTwice ==
    (last.op \in Emitters /\ Instantiated) =>
        /\ last.ret = "void"
        /\ last.eff.logs = IF Encodable THEN 1 ELSE 2
        /\ last.eff.logs < MaxDepth
        /\ Len(last.eff.built) \in {last.eff.logs, last.eff.logs + 1}
        /\ Len(last.eff.built) = last.eff.logs + 1 =>
              LET w == last.eff.built[Len(last.eff.built)] IN
              /\ w.Severity = "WARNING"
              /\ w.Tags = <<Active.System, "logging">>
              /\ Count([Severity |-> w.Severity, Tags |-> w.Tags,
                        Message |-> w.Message], last.eff.lines) = 1
              /\ \A i \in 1..Len(last.eff.posts) :
                    last.eff.posts[i].body.message # w.Message

C13_Witness ==
    /\ revision = RevPart000
    /\ last.op \in SeverityEmitters
    /\ Instantiated
    /\ ~Encodable
    /\ last.eff.logs = 2
    /\ Len(last.eff.built) = 3
    /\ Len(last.eff.posts) = 1

(* C14: no call sends more than one request: an emitter call, a Fatal call  *)
(* and an Init call (turned away or not) each post at most once, whether    *)
(* the request succeeds or fails.                                           *)
C14_AtMostOnePost ==
    /\ Len(last.eff.posts) <= 1
    /\ (last.op \in Emitters /\ Instantiated /\ Encodable /\ Active.Host # "") =>
          /\ Len(last.eff.posts) = 1
          /\ last.eff.posts[1].body.message = last.args.message

C14_Witness ==
    /\ InitRejected
    /\ Len(last.eff.posts) = 1
    /\ last.eff.err # NoErr

(* C15: once logr is set and no Init call is left between its test and its  *)
(* store, no step changes logr again or sets it back to nil: emitters,      *)
(* Fatal and Init calls that are turned away leave the configuration as it  *)
(* is, and every later Init call is turned away.                            *)
Settled == logr # Nil /\ \A p \in Procs : call[p].pc # "store"

\* a step of an Init call from its test to its store
Stores == \E p \in Procs : call[p].pc = "store" /\ call'[p].pc = "return"

C15_ConfigurationFrozen ==
    [][/\ (logr # Nil /\ ~Stores) => logr' = logr
       /\ Settled => (Settled' /\ logr' = logr)]_vars

C15_Witness ==
    /\ Settled
    /\ InitRejected
    /\ last.o # Deref(logr).options
    /\ \E i \in 1..Len(initRets) : initRets[i].ret = NoErr

(* C16: a Fatal called once logr is set writes the line of its CRITICAL     *)
(* record exactly once, whatever the encoding, the post and Local did.      *)
C16_FatalWritesOnce ==
    (last.op = "Fatal" /\ Instantiated) => Count(OwnLine, last.eff.lines) = 1

\* the same, of the records that can be encoded
C16_FatalWritesOnceEncodable ==
    (last.op = "Fatal" /\ Instantiated /\ Encodable) =>
        Count(OwnLine, last.eff.lines) = 1

(* C17: a severity emitter whose record is encoded and posted without error *)
(* under Local false writes no line at all; the line of a call's own record *)
(* is there only if the post failed (or no host is set), Local is set, the  *)
(* record could not be encoded, or the call is Fatal.                       *)
C17_NoLineOnSuccess ==
    /\ (last.op \in SeverityEmitters /\ Instantiated /\ Encodable /\ Posted
            /\ last.eff.err = NoErr /\ ~Active.Local) =>
          last.eff.lines = <<>>
    /\ (last.op \in Emitters /\ Instantiated /\ Count(OwnLine, last.eff.lines) >= 1) =>
          \/ last.eff.err # NoErr
          \/ Active.Local
          \/ ~Encodable
          \/ last.op = "Fatal"

C17_Witness ==
    /\ last.op \in SeverityEmitters
    /\ Instantiated /\ Encodable /\ Posted
    /\ last.eff.err = NoErr
    /\ ~Active.Local
    /\ last.eff.lines = <<>>
====
